---- MODULE Spec2Model ----
(***************************************************************************)
(* Finite-difference option pricing (src/m.py): the FiniteDifferences base *)
(* class and its five scheme classes FDExplicitEu, FDImplicitEu, FDCnEu,    *)
(* FDCnDo and FDCnAm, as one state machine per pricing call.               *)
(*                                                                         *)
(* Floating-point numbers are fixed-point here: the integer n stands for  *)
(* the real n / Scale, products and quotients round towards minus          *)
(* infinity.  NumPy arrays are functions on 0 .. n-1, so that every index   *)
(* of the model is the index the source writes.                            *)
(***************************************************************************)
EXTENDS Integers, Sequences, FiniteSets, TLC

\* ------------------------------------------------------------ bounds
Scale == 100          \* fixed-point unit: 1.0 is Scale
MaxM == 4             \* price steps M range over 2 .. MaxM
MaxN == 2             \* time steps N range over 1 .. MaxN
MaxSweeps == 4        \* PSOR sweeps followed per time step
ExpTerms == 4         \* terms of the exponential series after the first

\* sys.float_info.max, the error a time step starts its PSOR loop with
FloatMax == 1000000000

\* ------------------------------------------------------------ numbers
ToReal(n) == n * Scale
FMul(x, y) == (x * y) \div Scale
FDiv(x, y) == (x * Scale) \div y
Max(x, y) == IF x >= y THEN x ELSE y
Min(x, y) == IF x <= y THEN x ELSE y
Abs(x) == IF x < 0 THEN -x ELSE x

RECURSIVE ExpSum(_, _, _)
ExpSum(x, n, term) ==
    IF n > ExpTerms THEN 0
    ELSE term + ExpSum(x, n + 1, FMul(term, x) \div (n + 1))

\* np.exp
FExp(x) == ExpSum(x, 0, Scale)

RECURSIVE ISqrtB(_, _, _)
ISqrtB(n, lo, hi) ==
    IF lo >= hi THEN lo
    ELSE LET mid == (lo + hi + 1) \div 2
         IN  IF mid * mid <= n THEN ISqrtB(n, mid, hi)
             ELSE ISqrtB(n, lo, mid - 1)

ISqrt(n) == ISqrtB(n, 0, Min(n, 46340))

\* ------------------------------------------------------------ arrays
Size(arr) == Cardinality(DOMAIN arr)
Zeros(n) == [x \in 0 .. (n - 1) |-> 0]

\* arr[idx] of Python: a negative idx counts from the end
InBounds(arr, idx) == (-Size(arr)) <= idx /\ idx <= Size(arr) - 1
Norm(arr, idx) == IF idx < 0 THEN Size(arr) + idx ELSE idx
At(arr, idx) == arr[Norm(arr, idx)]

\* arr[lo:hi] of Python, 0 <= lo, 0 <= hi: the bounds are clipped to the array
Slice(arr, lo, hi) ==
    LET l == Min(lo, Size(arr))
        h == Min(hi, Size(arr))
    IN  [x \in 0 .. (h - l - 1) |-> arr[l + x]]

RECURSIVE SumSq(_, _)
SumSq(arr, n) == IF n = 0 THEN 0 ELSE arr[n - 1] * arr[n - 1] + SumSq(arr, n - 1)

\* np.linalg.norm of a vector
LinalgNorm(arr) == ISqrt(SumSq(arr, Size(arr)))

\* np.arange(n), as reals
Arange(n) == [x \in 0 .. (n - 1) |-> ToReal(x)]

\* np.linspace(start, stop, m + 1)
Linspace(start, stop, m) ==
    LET step == FDiv(stop - start, ToReal(m))
    IN  [x \in 0 .. m |-> IF x = m THEN stop ELSE FMul(ToReal(x), step) + start]

\* np.diag(v, d): v on the d-th diagonal of a square matrix of size len(v) + |d|
Diag(v, d) ==
    LET n == Size(v) + Abs(d)
    IN  [x \in 0 .. (n - 1) |-> [y \in 0 .. (n - 1) |->
            IF y - x = d THEN v[Min(x, y)] ELSE 0]]

MatAdd(A, B) == [x \in DOMAIN A |-> [y \in DOMAIN A[x] |-> A[x][y] + B[x][y]]]
MatNeg(A) == [x \in DOMAIN A |-> [y \in DOMAIN A[x] |-> -A[x][y]]]

RECURSIVE DotRow(_, _, _)
DotRow(row, v, n) ==
    IF n = 0 THEN 0 ELSE FMul(row[n - 1], v[n - 1]) + DotRow(row, v, n - 1)

\* np.dot(A, v)
MatVec(A, v) == [x \in DOMAIN A |-> DotRow(A[x], v, Size(v))]

VecAdd(u, v) == [x \in DOMAIN u |-> u[x] + v[x]]

\* ------------------------------------------------------------ state
VARIABLES
    self,            \* the scalar attributes: scheme (the class), S0, K, r, T,
                     \* sigma, Smax, M, N, is_call, barrier, omega, tol
    i_values, j_values, grid, boundary_conds,
    coef,            \* a, b, c (, coeffs) or alpha, beta, gamma, M1, M2
    payoffs, past_values, boundary_values,
    aux, rhs, old_values, new_values, error, values,
    pc,              \* where the call is
    j, i, k,         \* loop indices of traverse_grid
    sweeps,          \* PSOR sweeps started in the current time step
    calls,           \* the methods price() has entered, in order
    steps,           \* the time indices traverse_grid has completed, in order
    written,         \* the indices of new_values the current sweep has assigned
    result,          \* <<>> or <<the number price() returned>>
    fault            \* "" or the exception that ended the call

vars == <<self, i_values, j_values, grid, boundary_conds, coef, payoffs,
          past_values, boundary_values, aux, rhs, old_values, new_values,
          error, values, pc, j, i, k, sweeps, calls, steps, written, result,
          fault>>

Schemes == {"FDExplicitEu", "FDImplicitEu", "FDCnEu", "FDCnDo", "FDCnAm"}
GridSchemes == Schemes \ {"FDCnAm"}
CnSchemes == {"FDCnEu", "FDCnDo"}

\* the arguments a caller passes: M >= 2 and N >= 1 throughout
S0Set == {Scale, 2 * Scale, 5 * Scale}
KSet == {2 * Scale}
SmaxSet == {4 * Scale}
rSet == {0, Scale \div 10}
sigmaSet == {0, Scale \div 2}
TSet == {Scale}
BarrierSet == {0, Scale}
OmegaSet == {Scale, 2 * Scale}
TolSet == {0, Scale \div 100}

Args ==
    { [scheme |-> s, S0 |-> s0, K |-> kk, r |-> rr, T |-> tt, sigma |-> sg,
       Smax |-> sm, M |-> m, N |-> n, is_call |-> ic,
       barrier |-> b, omega |-> w, tol |-> tl] :
         s \in Schemes, s0 \in S0Set, kk \in KSet, rr \in rSet, tt \in TSet,
         sg \in sigmaSet, sm \in SmaxSet, m \in 2 .. MaxM, n \in 1 .. MaxN,
         ic \in BOOLEAN, b \in BarrierSet, w \in OmegaSet, tl \in TolSet }

\* attributes a class does not have stay at its constructor's defaults
ArgsOf ==
    { x \in Args :
        /\ (x.scheme # "FDCnDo" => x.barrier = 0)
        /\ (x.scheme # "FDCnAm" => x.omega = Scale /\ x.tol = 0) }

Init ==
    /\ self \in ArgsOf
    /\ i_values = <<>> /\ j_values = <<>> /\ grid = <<>>
    /\ boundary_conds = <<>> /\ coef = <<>>
    /\ payoffs = <<>> /\ past_values = <<>> /\ boundary_values = <<>>
    /\ aux = <<>> /\ rhs = <<>> /\ old_values = <<>> /\ new_values = <<>>
    /\ error = 0 /\ values = <<>>
    /\ pc = "new"
    /\ j = 0 /\ i = 0 /\ k = 0 /\ sweeps = 0
    /\ calls = <<>> /\ steps = <<>> /\ written = <<>> /\ result = <<>> /\ fault = ""

\* ------------------------------------------------------------ price()
PriceBodySwapped ==
    <<"setup_coefficients", "setup_boundary_conditions", "traverse_grid",
      "interpolate">>

\* FiniteDifferences.price: the methods it calls, in the order it calls them
PriceBody ==
    <<"setup_boundary_conditions", "setup_coefficients", "traverse_grid",
      "interpolate">>

\* where price() is once the call of method name has returned
AfterCall(name) ==
    LET n == CHOOSE x \in 1 .. Len(PriceBody) : PriceBody[x] = name
    IN  IF n = Len(PriceBody) THEN "done" ELSE PriceBody[n + 1]

\* ------------------------------------------------------------ properties
dt == FDiv(self.T, ToReal(self.N))

\* FiniteDifferences.dS, overridden by FDCnDo.dS
dS ==
    IF self.scheme = "FDCnDo"
    THEN FDiv(self.Smax - self.barrier, ToReal(self.M))
    ELSE FDiv(self.Smax, ToReal(self.M))

\* ------------------------------------------------------------ __init__
BaseInit ==
    /\ i_values' = Arange(self.M)
    /\ j_values' = [x \in 0 .. (self.N - 1) |-> x]
    /\ grid' = [x \in 0 .. self.M |-> Zeros(self.N + 1)]
    /\ boundary_conds' = Linspace(0, self.Smax, self.M)

DoInit ==
    LET bc == Linspace(self.barrier, self.Smax, self.M)
    IN  /\ j_values' = [x \in 0 .. (self.N - 1) |-> x]
        /\ grid' = [x \in 0 .. self.M |-> Zeros(self.N + 1)]
        /\ boundary_conds' = bc
        /\ i_values' = [x \in DOMAIN bc |-> FDiv(bc[x], dS)]

AmInit ==
    /\ grid' = [x \in 0 .. self.M |-> Zeros(self.N + 1)]
    /\ boundary_conds' = Linspace(0, self.Smax, self.M)
    /\ i_values' = Arange(self.M + 1)
    /\ j_values' = [x \in 0 .. self.N |-> x]

Construct ==
    /\ pc = "new"
    /\ CASE self.scheme = "FDCnDo" -> DoInit
         [] self.scheme = "FDCnAm" -> AmInit
         [] OTHER -> BaseInit
    /\ pc' = PriceBody[1]
    /\ UNCHANGED <<self, coef, payoffs, past_values, boundary_values, aux, rhs,
                   old_values, new_values, error, values, j, i, k, sweeps,
                   calls, steps, result, fault,
                   written>>

\* ------------------------------------------------------------ boundaries
\* np.exp(-self.r*self.dt*(self.N-self.j_values)) at one entry jv of j_values
Discount(jv) == FExp(FMul(FMul(-self.r, dt), ToReal(self.N - jv)))

\* FDExplicitEu.setup_boundary_conditions, inherited by FDImplicitEu, FDCnEu
\* and FDCnDo: the terminal column, then one edge row without its last entry
EuBoundary ==
    IF self.is_call
    THEN [x \in 0 .. self.M |-> [y \in 0 .. self.N |->
            IF y = self.N THEN Max(0, boundary_conds[x] - self.K)
            ELSE IF x = self.M
                 THEN FMul(self.Smax - self.K, Discount(j_values[y]))
                 ELSE grid[x][y]]]
    ELSE [x \in 0 .. self.M |-> [y \in 0 .. self.N |->
            IF y = self.N THEN Max(0, self.K - boundary_conds[x])
            ELSE IF x = 0
                 THEN FMul(self.K - self.Smax, Discount(j_values[y]))
                 ELSE grid[x][y]]]

\* FDCnAm.setup_boundary_conditions: the payoffs of the interior nodes
AmPayoffs ==
    LET bc == Slice(boundary_conds, 1, self.M)
    IN  IF self.is_call
        THEN [x \in DOMAIN bc |-> Max(0, bc[x] - self.K)]
        ELSE [x \in DOMAIN bc |-> Max(0, self.K - bc[x])]

AmBoundaryValues ==
    [x \in DOMAIN j_values |-> FMul(self.K, Discount(j_values[x]))]

setup_boundary_conditions ==
    /\ pc = "setup_boundary_conditions"
    /\ calls' = Append(calls, "setup_boundary_conditions")
    /\ IF self.scheme = "FDCnAm"
       THEN /\ payoffs' = AmPayoffs
            /\ past_values' = AmPayoffs
            /\ boundary_values' = AmBoundaryValues
            /\ UNCHANGED grid
       ELSE /\ grid' = EuBoundary
            /\ UNCHANGED <<payoffs, past_values, boundary_values,
                   written>>
    /\ pc' = AfterCall("setup_boundary_conditions")
    /\ UNCHANGED <<self, i_values, j_values, boundary_conds, coef, aux, rhs,
                   old_values, new_values, error, values, j, i, k, sweeps,
                   steps, result, fault,
                   written>>

\* ------------------------------------------------------------ coefficients
Half == Scale \div 2
Quarter == Scale \div 4
Sq(x) == FMul(x, x)
Sig2 == FMul(self.sigma, self.sigma)

\* FDExplicitEu.setup_coefficients
ExplicitCoef ==
    [a |-> [x \in DOMAIN i_values |->
              FMul(FMul(Half, dt),
                   FMul(Sig2, Sq(i_values[x])) - FMul(self.r, i_values[x]))],
     b |-> [x \in DOMAIN i_values |->
              Scale - FMul(dt, FMul(Sig2, Sq(i_values[x])) + self.r)],
     c |-> [x \in DOMAIN i_values |->
              FMul(FMul(Half, dt),
                   FMul(Sig2, Sq(i_values[x])) + FMul(self.r, i_values[x]))]]

\* FDImplicitEu.setup_coefficients
ImplicitCoef ==
    LET a == [x \in DOMAIN i_values |->
                FMul(Half, FMul(FMul(self.r, dt), i_values[x])
                           - FMul(FMul(Sig2, dt), Sq(i_values[x])))]
        b == [x \in DOMAIN i_values |->
                Scale + FMul(FMul(Sig2, dt), Sq(i_values[x])) + FMul(self.r, dt)]
        c == [x \in DOMAIN i_values |->
                FMul(-Half, FMul(FMul(self.r, dt), i_values[x])
                            + FMul(FMul(Sig2, dt), Sq(i_values[x])))]
    IN  [a |-> a, b |-> b, c |-> c,
         coeffs |-> MatAdd(MatAdd(Diag(Slice(a, 2, self.M), -1),
                                  Diag(Slice(b, 1, self.M), 0)),
                           Diag(Slice(c, 1, self.M - 1), 1))]

\* FDCnEu.setup_coefficients, inherited by FDCnDo and FDCnAm
CnCoef ==
    LET alpha == [x \in DOMAIN i_values |->
                    FMul(FMul(Quarter, dt),
                         FMul(Sig2, Sq(i_values[x])) - FMul(self.r, i_values[x]))]
        beta == [x \in DOMAIN i_values |->
                    FMul(FMul(-dt, Half),
                         FMul(Sig2, Sq(i_values[x])) + self.r)]
        gamma == [x \in DOMAIN i_values |->
                    FMul(FMul(Quarter, dt),
                         FMul(Sig2, Sq(i_values[x])) + FMul(self.r, i_values[x]))]
        b1 == Slice(beta, 1, self.M)
    IN  [alpha |-> alpha, beta |-> beta, gamma |-> gamma,
         M1 |-> MatAdd(MatAdd(MatNeg(Diag(Slice(alpha, 2, self.M), -1)),
                              Diag([x \in DOMAIN b1 |-> Scale - b1[x]], 0)),
                       MatNeg(Diag(Slice(gamma, 1, self.M - 1), 1))),
         M2 |-> MatAdd(MatAdd(Diag(Slice(alpha, 2, self.M), -1),
                              Diag([x \in DOMAIN b1 |-> Scale + b1[x]], 0)),
                       Diag(Slice(gamma, 1, self.M - 1), 1))]

setup_coefficients ==
    /\ pc = "setup_coefficients"
    /\ calls' = Append(calls, "setup_coefficients")
    /\ coef' = CASE self.scheme = "FDExplicitEu" -> ExplicitCoef
                 [] self.scheme = "FDImplicitEu" -> ImplicitCoef
                 [] OTHER -> CnCoef
    /\ pc' = AfterCall("setup_coefficients")
    /\ UNCHANGED <<self, i_values, j_values, grid, boundary_conds, payoffs,
                   past_values, boundary_values, aux, rhs, old_values,
                   new_values, error, values, j, i, k, sweeps, steps, result,
                   fault,
                   written>>

\* ------------------------------------------------------------ traverse_grid
\* the statements before the time loop; the loop starts at j = N - 1
traverse_grid ==
    /\ pc = "traverse_grid"
    /\ calls' = Append(calls, "traverse_grid")
    /\ aux' = IF self.scheme \in {"FDImplicitEu", "FDCnAm"}
              THEN Zeros(self.M - 1) ELSE aux
    /\ new_values' = IF self.scheme = "FDCnAm" THEN Zeros(self.M - 1)
                     ELSE new_values
    /\ j' = self.N - 1
    /\ i' = 2
    /\ pc' = "time_loop"
    /\ UNCHANGED <<self, i_values, j_values, grid, boundary_conds, coef,
                   payoffs, past_values, boundary_values, rhs, old_values,
                   error, values, k, sweeps, steps, result, fault,
                   written>>

\* one exception ends the call
Raise(what) ==
    /\ pc' = "failed"
    /\ fault' = what

InGrid(x, y) == InBounds(grid, x) /\ InBounds(grid[Norm(grid, x)], y)

\* FDExplicitEu.traverse_grid: the accesses of one assignment of the inner loop
ExplicitAccessOk ==
    /\ InBounds(coef.a, i) /\ InBounds(coef.b, i) /\ InBounds(coef.c, i)
    /\ InGrid(i - 1, j + 1) /\ InGrid(i, j + 1) /\ InGrid(i + 1, j + 1)
    /\ InGrid(i, j)

ExplicitValueSameColumn ==
    FMul(coef.a[i], grid[i - 1][j]) + FMul(coef.b[i], grid[i][j + 1])
    + FMul(coef.c[i], grid[i + 1][j + 1])

ExplicitValue ==
    FMul(coef.a[i], grid[i - 1][j + 1]) + FMul(coef.b[i], grid[i][j + 1])
    + FMul(coef.c[i], grid[i + 1][j + 1])

\* one assignment grid[i,j] = ... of the inner loop, i in range(M)[2:]
ExplicitCell ==
    /\ pc = "time_loop" /\ self.scheme = "FDExplicitEu"
    /\ j >= 0 /\ i <= self.M - 1
    /\ IF ExplicitAccessOk
       THEN /\ grid' = [grid EXCEPT ![i][j] = ExplicitValue]
            /\ i' = i + 1
            /\ UNCHANGED <<pc, fault,
                   written>>
       ELSE /\ Raise("IndexError")
            /\ UNCHANGED <<grid, i,
                   written>>
    /\ UNCHANGED <<self, i_values, j_values, boundary_conds, coef, payoffs,
                   past_values, boundary_values, aux, rhs, old_values,
                   new_values, error, values, j, k, sweeps, calls, steps,
                   result,
                   written>>

\* the inner loop is exhausted: the outer loop takes the next lower j
ExplicitNextStep ==
    /\ pc = "time_loop" /\ self.scheme = "FDExplicitEu"
    /\ j >= 0 /\ i > self.M - 1
    /\ steps' = Append(steps, j)
    /\ j' = j - 1
    /\ i' = 2
    /\ UNCHANGED <<self, i_values, j_values, grid, boundary_conds, coef,
                   payoffs, past_values, boundary_values, aux, rhs, old_values,
                   new_values, error, values, pc, k, sweeps, calls, result,
                   fault,
                   written>>

\* scipy.linalg.lu of a tridiagonal matrix A whose rows need no exchange (the
\* sub-diagonal entry never exceeds the pivot above it for the parameter sets
\* of Args, so P is the identity the source takes it for): the diagonal of U
\* and the sub-diagonal of L
RECURSIVE LuU(_, _)
LuU(A, n) ==
    IF n = 0 THEN A[0][0]
    ELSE A[n][n] - FMul(FDiv(A[n][n - 1], LuU(A, n - 1)), A[n - 1][n])

LuL(A, n) == FDiv(A[n][n - 1], LuU(A, n - 1))

Singular(A) == \E n \in DOMAIN A : LuU(A, n) = 0

\* linalg.solve(L, d), entry n
RECURSIVE SolveLowerAt(_, _, _)
SolveLowerAt(A, d, n) ==
    IF n = 0 THEN d[0]
    ELSE d[n] - FMul(LuL(A, n), SolveLowerAt(A, d, n - 1))

SolveLower(A, d) == [x \in DOMAIN d |-> SolveLowerAt(A, d, x)]

\* linalg.solve(U, y), entry n
RECURSIVE SolveUpperAt(_, _, _)
SolveUpperAt(A, y, n) ==
    IF n = Size(y) - 1 THEN FDiv(y[n], LuU(A, n))
    ELSE FDiv(y[n] - FMul(A[n][n + 1], SolveUpperAt(A, y, n + 1)), LuU(A, n))

SolveUpper(A, y) == [x \in DOMAIN y |-> SolveUpperAt(A, y, x)]

\* self.grid[lo:hi, y]
GridColumn(lo, hi, y) == [x \in 0 .. (hi - lo - 1) |-> grid[lo + x][y]]

\* self.grid[1:self.M, j] = x2
PutColumn(x2) ==
    [x \in DOMAIN grid |-> [y \in DOMAIN grid[x] |->
        IF y = j /\ 1 <= x /\ x <= self.M - 1 THEN x2[x - 1] ELSE grid[x][y]]]

\* FDImplicitEu.traverse_grid: one pass of the time loop
ImplicitAux == [aux EXCEPT ![0] = FMul(-coef.a[1], grid[0][j])]

ImplicitStep ==
    /\ pc = "time_loop" /\ self.scheme = "FDImplicitEu" /\ j >= 0
    /\ IF ~(InBounds(aux, 0) /\ InBounds(coef.a, 1) /\ InGrid(0, j))
       THEN /\ Raise("IndexError")
            /\ UNCHANGED <<aux, grid, j, steps>>
       ELSE IF Singular(coef.coeffs)
       THEN /\ Raise("LinAlgError")
            /\ UNCHANGED <<aux, grid, j, steps>>
       ELSE /\ aux' = ImplicitAux
            /\ grid' = PutColumn(SolveUpper(coef.coeffs,
                          SolveLower(coef.coeffs,
                             VecAdd(GridColumn(1, self.M, j + 1), ImplicitAux))))
            /\ steps' = Append(steps, j)
            /\ j' = j - 1
            /\ UNCHANGED <<pc, fault>>
    /\ UNCHANGED <<self, i_values, j_values, boundary_conds, coef, payoffs,
                   past_values, boundary_values, rhs, old_values, new_values,
                   error, values, i, k, sweeps, calls, written, result>>

\* FDCnEu.traverse_grid, inherited by FDCnDo: one pass of the time loop
CnStep ==
    /\ pc = "time_loop" /\ self.scheme \in CnSchemes /\ j >= 0
    /\ IF Singular(coef.M1)
       THEN /\ Raise("LinAlgError")
            /\ UNCHANGED <<grid, j, steps>>
       ELSE /\ grid' = PutColumn(SolveUpper(coef.M1,
                          SolveLower(coef.M1,
                             MatVec(coef.M2, GridColumn(1, self.M, j + 1)))))
            /\ steps' = Append(steps, j)
            /\ j' = j - 1
            /\ UNCHANGED <<pc, fault>>
    /\ UNCHANGED <<self, i_values, j_values, boundary_conds, coef, payoffs,
                   past_values, boundary_values, aux, rhs, old_values,
                   new_values, error, values, i, k, sweeps, calls, written,
                   result>>

\* ------------------------------------------------------------ FDCnAm
\* FDCnAm.traverse_grid: a pass of the time loop up to its while loop
AmAux ==
    [aux EXCEPT ![0] = FMul(coef.alpha[1],
                            boundary_values[j] + boundary_values[j + 1])]

AmStepBegin ==
    /\ pc = "time_loop" /\ self.scheme = "FDCnAm" /\ j >= 0
    /\ IF /\ InBounds(aux, 0) /\ InBounds(coef.alpha, 1)
          /\ InBounds(boundary_values, j) /\ InBounds(boundary_values, j + 1)
       THEN /\ aux' = AmAux
            /\ rhs' = VecAdd(MatVec(coef.M2, past_values), AmAux)
            /\ old_values' = past_values
            /\ error' = FloatMax
            /\ sweeps' = 0
            /\ pc' = "while"
            /\ UNCHANGED fault
       ELSE /\ Raise("IndexError")
            /\ UNCHANGED <<aux, rhs, old_values, error, sweeps>>
    /\ UNCHANGED <<self, i_values, j_values, grid, boundary_conds, coef,
                   payoffs, past_values, boundary_values, new_values, values,
                   j, i, k, calls, steps, written, result>>

calculate_payoff_start_boundary(rh, old) ==
    LET payoff == At(old, 0)
            + FMul(FDiv(self.omega, Scale - At(coef.beta, 1)),
                   At(rh, 0) - FMul(Scale - At(coef.beta, 1), At(old, 0))
                   + FMul(At(coef.gamma, 1), At(old, 1)))
    IN  Max(At(payoffs, 0), payoff)

StartBoundaryAccessOk ==
    /\ InBounds(old_values, 0) /\ InBounds(old_values, 1)
    /\ InBounds(coef.beta, 1) /\ InBounds(coef.gamma, 1)
    /\ InBounds(rhs, 0) /\ InBounds(payoffs, 0) /\ InBounds(new_values, 0)

calculate_payoff_end_unclamped(rh, old, new) ==
    At(old, -1)
    + FMul(FDiv(self.omega, Scale - At(coef.beta, -2)),
           At(rh, -1) + FMul(At(coef.alpha, -2), At(new, -2))
           - FMul(Scale - At(coef.beta, -2), At(old, -1)))

calculate_payoff_end_boundary(rh, old, new) ==
    LET payoff == At(old, -1)
            + FMul(FDiv(self.omega, Scale - At(coef.beta, -2)),
                   At(rh, -1) + FMul(At(coef.alpha, -2), At(new, -2))
                   - FMul(Scale - At(coef.beta, -2), At(old, -1)))
    IN  Max(At(payoffs, -1), payoff)

EndBoundaryAccessOk ==
    /\ InBounds(old_values, -1) /\ InBounds(new_values, -2)
    /\ InBounds(coef.beta, -2) /\ InBounds(coef.alpha, -2)
    /\ InBounds(rhs, -1) /\ InBounds(payoffs, -1) /\ InBounds(new_values, -1)

calculate_payoff_jacobi(kk, rh, old, new) ==
    LET payoff == At(old, kk)
            + FMul(FDiv(self.omega, Scale - At(coef.beta, kk + 1)),
                   At(rh, kk) + FMul(At(coef.alpha, kk + 1), At(old, kk - 1))
                   - FMul(Scale - At(coef.beta, kk + 1), At(old, kk))
                   + FMul(At(coef.gamma, kk + 1), At(old, kk + 1)))
    IN  Max(At(payoffs, kk), payoff)

calculate_payoff(kk, rh, old, new) ==
    LET payoff == At(old, kk)
            + FMul(FDiv(self.omega, Scale - At(coef.beta, kk + 1)),
                   At(rh, kk) + FMul(At(coef.alpha, kk + 1), At(new, kk - 1))
                   - FMul(Scale - At(coef.beta, kk + 1), At(old, kk))
                   + FMul(At(coef.gamma, kk + 1), At(old, kk + 1)))
    IN  Max(At(payoffs, kk), payoff)

PayoffAccessOk ==
    /\ InBounds(old_values, k) /\ InBounds(old_values, k + 1)
    /\ InBounds(new_values, k - 1) /\ InBounds(new_values, k)
    /\ InBounds(coef.beta, k + 1) /\ InBounds(coef.alpha, k + 1)
    /\ InBounds(coef.gamma, k + 1)
    /\ InBounds(rhs, k) /\ InBounds(payoffs, k)

\* while self.tol < error holds: the sweep starts with new_values[0]
PsorStart ==
    /\ pc = "while" /\ self.tol < error
    /\ sweeps < MaxSweeps
    /\ sweeps' = sweeps + 1
    /\ IF StartBoundaryAccessOk
       THEN /\ new_values' = [new_values EXCEPT
                  ![0] = calculate_payoff_start_boundary(rhs, old_values)]
            /\ written' = <<0>>
            /\ k' = 1
            /\ pc' = "sweep"
            /\ UNCHANGED fault
       ELSE /\ Raise("IndexError")
            /\ UNCHANGED <<new_values, written, k>>
    /\ UNCHANGED <<self, i_values, j_values, grid, boundary_conds, coef,
                   payoffs, past_values, boundary_values, aux, rhs, old_values,
                   error, values, j, i, calls, steps, result>>

\* for k in range(self.M-2)[1:]
PsorInner ==
    /\ pc = "sweep" /\ k <= self.M - 3
    /\ IF PayoffAccessOk
       THEN /\ new_values' = [new_values EXCEPT
                  ![k] = calculate_payoff(k, rhs, old_values, new_values)]
            /\ written' = Append(written, k)
            /\ k' = k + 1
            /\ UNCHANGED <<pc, fault>>
       ELSE /\ Raise("IndexError")
            /\ UNCHANGED <<new_values, written, k>>
    /\ UNCHANGED <<self, i_values, j_values, grid, boundary_conds, coef,
                   payoffs, past_values, boundary_values, aux, rhs, old_values,
                   error, values, j, i, sweeps, calls, steps, result>>

\* the inner loop is exhausted: new_values[-1]
PsorEndBoundary ==
    /\ pc = "sweep" /\ k > self.M - 3
    /\ IF EndBoundaryAccessOk
       THEN /\ new_values' = [new_values EXCEPT
                  ![Norm(new_values, -1)] =
                      calculate_payoff_end_boundary(rhs, old_values, new_values)]
            /\ written' = Append(written, Norm(new_values, -1))
            /\ pc' = "sweep_end"
            /\ UNCHANGED fault
       ELSE /\ Raise("IndexError")
            /\ UNCHANGED <<new_values, written>>
    /\ UNCHANGED <<self, i_values, j_values, grid, boundary_conds, coef,
                   payoffs, past_values, boundary_values, aux, rhs, old_values,
                   error, values, j, i, k, sweeps, calls, steps, result>>

\* the error of the sweep, then the copies of new_values
PsorSweepEnd ==
    /\ pc = "sweep_end"
    /\ error' = LinalgNorm([x \in DOMAIN new_values |->
                              new_values[x] - old_values[x]])
    /\ old_values' = new_values
    /\ past_values' = new_values
    /\ pc' = "while"
    /\ UNCHANGED <<self, i_values, j_values, grid, boundary_conds, coef,
                   payoffs, boundary_values, aux, rhs, new_values, values, j,
                   i, k, sweeps, calls, steps, written, result, fault>>

\* self.tol < error fails: the time loop takes the next lower j
AmStepEnd ==
    /\ pc = "while" /\ ~(self.tol < error)
    /\ steps' = Append(steps, j)
    /\ j' = j - 1
    /\ pc' = "time_loop"
    /\ UNCHANGED <<self, i_values, j_values, grid, boundary_conds, coef,
                   payoffs, past_values, boundary_values, aux, rhs, old_values,
                   new_values, error, values, i, k, sweeps, calls, written,
                   result, fault>>

\* np.concatenate(([self.boundary_values[0]], new_values, [0]))
AmValues ==
    [x \in 0 .. (Size(new_values) + 1) |->
        IF x = 0 THEN boundary_values[0]
        ELSE IF x = Size(new_values) + 1 THEN 0
        ELSE new_values[x - 1]]

\* the time loop is exhausted: traverse_grid returns
TraverseReturn ==
    /\ pc = "time_loop" /\ j < 0
    /\ values' = IF self.scheme = "FDCnAm" THEN AmValues ELSE values
    /\ pc' = AfterCall("traverse_grid")
    /\ UNCHANGED <<self, i_values, j_values, grid, boundary_conds, coef,
                   payoffs, past_values, boundary_values, aux, rhs, old_values,
                   new_values, error, j, i, k, sweeps, calls, steps, written,
                   result, fault>>

\* ------------------------------------------------------------ interpolate
\* np.interp(x, xp, fp) for increasing xp
Interp(x, xp, fp) ==
    LET n == Size(xp)
    IN  IF x > xp[n - 1] THEN fp[n - 1]
        ELSE IF x < xp[0] THEN fp[0]
        ELSE LET q == CHOOSE q \in 0 .. (n - 1) :
                          xp[q] <= x /\ (q = n - 1 \/ x < xp[q + 1])
             IN  IF q = n - 1 \/ xp[q] = x THEN fp[q]
                 ELSE FMul(FDiv(fp[q + 1] - fp[q], xp[q + 1] - xp[q]),
                           x - xp[q]) + fp[q]

InterpolatedTerminal ==
    IF self.scheme = "FDCnAm"
    THEN Interp(self.S0, boundary_conds, values)
    ELSE Interp(self.S0, boundary_conds, GridColumn(0, self.M + 1, self.N))

\* FiniteDifferences.interpolate and FDCnAm.interpolate
Interpolated ==
    IF self.scheme = "FDCnAm"
    THEN Interp(self.S0, boundary_conds, values)
    ELSE Interp(self.S0, boundary_conds, GridColumn(0, self.M + 1, 0))

interpolate ==
    /\ pc = "interpolate"
    /\ calls' = Append(calls, "interpolate")
    /\ result' = <<Interpolated>>
    /\ pc' = AfterCall("interpolate")
    /\ UNCHANGED <<self, i_values, j_values, grid, boundary_conds, coef,
                   payoffs, past_values, boundary_values, aux, rhs, old_values,
                   new_values, error, values, j, i, k, sweeps, steps, written,
                   fault>>

\* ------------------------------------------------------------ next-state relation
Next ==
    \/ Construct
    \/ setup_boundary_conditions
    \/ setup_coefficients
    \/ traverse_grid
    \/ ExplicitCell
    \/ ExplicitNextStep
    \/ ImplicitStep
    \/ CnStep
    \/ AmStepBegin
    \/ PsorStart
    \/ PsorInner
    \/ PsorEndBoundary
    \/ PsorSweepEnd
    \/ AmStepEnd
    \/ TraverseReturn
    \/ interpolate

Spec == Init /\ [][Next]_vars

\* ------------------------------------------------------------ stated properties
Descending(n) == [x \in 1 .. n |-> n - x]
Prefixes(sq) == {SubSeq(sq, 1, n) : n \in 0 .. Len(sq)}

\* C1: one call of price() enters setup_boundary_conditions,
\* setup_coefficients, traverse_grid and interpolate each once, in that
\* order, and a number is returned only after traverse_grid has completed the
\* time steps N-1, ..., 0 and interpolate has run.
C1_PriceSequence ==
    /\ calls \in Prefixes(<<"setup_boundary_conditions", "setup_coefficients",
                            "traverse_grid", "interpolate">>)
    /\ (Len(calls) = 4 => steps = Descending(self.N))
    /\ (result # <<>> => Len(calls) = 4 /\ pc = "done")
    /\ (pc = "done" => result # <<>>)

C1_Witness ==
    /\ pc = "done" /\ result # <<>>
    /\ self.scheme = "FDCnAm" /\ self.N = 2 /\ steps = <<1, 0>>

\* C2: a parameter set with non-positive T, sigma, K, Smax, M or N, or with
\* Smax not above max(K, S0), never gets a grid and never gets a price.
ValidParameters ==
    /\ self.T > 0 /\ self.sigma > 0 /\ self.K > 0 /\ self.Smax > 0
    /\ self.M > 0 /\ self.N > 0
    /\ self.Smax > Max(self.K, self.S0)

C2_InvalidParametersRejected ==
    ~ValidParameters => grid = <<>> /\ result = <<>>

\* C3: the PSOR loop of a time step is capped: when SweepCap sweeps have run
\* and the error is still above the tolerance, the next step of the call is
\* the NonConvergence failure, not another sweep.
SweepCap == MaxSweeps - 1

C3_PsorSweepsCapped ==
    [][(pc = "while" /\ self.tol < error /\ sweeps >= SweepCap)
         => (pc' = "failed" /\ fault' = "NonConvergence")]_vars

\* C4: in the down-and-out scheme with barrier < Smax the grid's row at the
\* barrier (i = 0) is 0 at every time step once the boundaries are set, and
\* the price of a spot at or below the barrier is 0.
C4_BarrierRowZero ==
    (self.scheme = "FDCnDo" /\ self.barrier < self.Smax
       /\ "setup_boundary_conditions" \in {calls[x] : x \in DOMAIN calls})
    => /\ \A y \in 0 .. self.N : grid[0][y] = 0
       /\ (pc = "done" /\ self.S0 <= self.barrier => result = <<0>>)

\* C5: with Smax > K the value held at the upper price edge at time step y is
\* (Smax-K)*exp(-r*dt*(N-y)) for a call and 0 for a put: in the grid's row M
\* for the four grid schemes, in the last entry of the American value vector
\* for y = 0.
UpperEdge(y) ==
    IF self.is_call
    THEN FMul(self.Smax - self.K,
              FExp(FMul(FMul(-self.r, FDiv(self.T, ToReal(self.N))),
                        ToReal(self.N - y))))
    ELSE 0

C5_UpperEdgeValue ==
    self.Smax > self.K
    => /\ (self.scheme # "FDCnAm"
             /\ "setup_boundary_conditions" \in {calls[x] : x \in DOMAIN calls})
          => \A y \in 0 .. self.N : grid[self.M][y] = UpperEdge(y)
       /\ (self.scheme = "FDCnAm" /\ values # <<>>)
          => values[self.M] = UpperEdge(0)

\* C6: in the American scheme the payoff vector is the intrinsic value of the
\* interior nodes from setup on, every completed sweep leaves
\* new_values[x] >= payoffs[x] for all x in 0 .. M-2, and so do the vector
\* committed for a time step and the final value vector.
Intrinsic(x) ==
    IF self.is_call THEN Max(0, boundary_conds[x + 1] - self.K)
    ELSE Max(0, self.K - boundary_conds[x + 1])

C6_EarlyExerciseFloor ==
    (self.scheme = "FDCnAm" /\ calls # <<>>)
    => /\ payoffs = [x \in 0 .. (self.M - 2) |-> Intrinsic(x)]
       /\ \A x \in 0 .. (self.M - 2) : past_values[x] >= payoffs[x]
       /\ (pc = "sweep_end" \/ (pc = "while" /\ sweeps > 0)
             \/ (pc = "time_loop" /\ steps # <<>>))
          => \A x \in 0 .. (self.M - 2) : new_values[x] >= payoffs[x]
       /\ values # <<>>
          => \A x \in 0 .. (self.M - 2) : values[x + 1] >= payoffs[x]

C6_Witness ==
    /\ self.scheme = "FDCnAm" /\ pc = "sweep_end" /\ sweeps >= 2
    /\ steps # <<>>
    /\ \E x \in DOMAIN payoffs : payoffs[x] > 0 /\ new_values[x] = payoffs[x]
    /\ \E x \in DOMAIN payoffs : new_values[x] > payoffs[x]

\* C7: when S0 is the price of node n of the price axis, the number
\* interpolate() returns is the value stored for node n at the valuation
\* time: grid[n][0], or values[n] in the American scheme.
C7_InterpolateAtNode ==
    pc = "done"
    => \A n \in 0 .. self.M :
          boundary_conds[n] = self.S0
          => result = <<IF self.scheme = "FDCnAm" THEN values[n]
                        ELSE grid[n][0]>>

C7_Witness ==
    /\ pc = "done" /\ self.scheme = "FDCnEu" /\ self.N = 2
    /\ \E n \in 1 .. (self.M - 1) :
          /\ boundary_conds[n] = self.S0
          /\ result = <<grid[n][0]>>
          /\ grid[n][0] # grid[n - 1][0] /\ grid[n][0] # grid[n + 1][0]
          /\ grid[n][0] # grid[n][self.N]

\* C8: the explicit traversal takes j from N-1 down to 0 one by one; within a
\* time step it assigns grid[i][j] for i = 2, ..., M-1 in turn, each as
\* a[i]*grid[i-1][j+1] + b[i]*grid[i][j+1] + c[i]*grid[i+1][j+1], and no step
\* changes any other cell.
C8_ExplicitTraversal ==
    [][(self.scheme = "FDExplicitEu" /\ pc = "time_loop")
         => /\ \A x \in 0 .. self.M : \A y \in 0 .. self.N :
                  grid'[x][y] # grid[x][y]
                  => /\ x = i /\ y = j /\ i' = i + 1
                     /\ 2 <= x /\ x <= self.M - 1
                     /\ 0 <= y /\ y <= self.N - 1
            /\ (i' = i + 1
                  => /\ j' = j /\ 2 <= i /\ i <= self.M - 1
                     /\ grid'[i][j] =
                          (coef.a[i] * grid[i - 1][j + 1]) \div Scale
                          + (coef.b[i] * grid[i][j + 1]) \div Scale
                          + (coef.c[i] * grid[i + 1][j + 1]) \div Scale)
            /\ (i' # i + 1 /\ pc' = "time_loop"
                  => /\ i = self.M /\ i' = 2 /\ j' = j - 1
                     /\ steps' = Append(steps, j))
            /\ (pc' # "time_loop" => j = -1 /\ steps = Descending(self.N))
    ]_vars

C8_Witness ==
    /\ self.scheme = "FDExplicitEu" /\ pc = "done"
    /\ self.M = 4 /\ self.N = 2 /\ steps = <<1, 0>>
    /\ grid[2][0] # 0 /\ grid[3][0] # grid[3][1]
    /\ grid[1][0] = 0

\* C9: a PSOR sweep assigns new_values[0], ..., new_values[M-2] in increasing
\* order, each once; the update of index x uses new_values[x-1] as the sweep
\* has written it and old_values[x], old_values[x+1] of the previous sweep,
\* and old_values changes only after the sweep's error is computed, to a copy
\* of new_values.
PsorUpdate(x) ==
    LET lower == IF x > 0
                 THEN (coef.alpha[x + 1] * new_values[x - 1]) \div Scale ELSE 0
        upper == IF x < self.M - 2
                 THEN (coef.gamma[x + 1] * old_values[x + 1]) \div Scale ELSE 0
        own == ((Scale - coef.beta[x + 1]) * old_values[x]) \div Scale
        relax == (self.omega * Scale) \div (Scale - coef.beta[x + 1])
    IN  Max(payoffs[x],
            old_values[x] + (relax * (rhs[x] + lower - own + upper)) \div Scale)

C9_SweepOrder ==
    [][(self.scheme = "FDCnAm" /\ pc' \in {"sweep", "sweep_end", "while"}
          /\ pc \in {"while", "sweep", "sweep_end"})
         => /\ (pc' \in {"sweep", "sweep_end"}
                  => LET x == IF pc = "while" THEN 0 ELSE Len(written)
                     IN  /\ written' = (IF pc = "while" THEN <<>> ELSE written)
                                          \o <<x>>
                         /\ new_values' =
                              [new_values EXCEPT ![x] = PsorUpdate(x)]
                         /\ old_values' = old_values
                         /\ (pc' = "sweep_end") = (x = self.M - 2))
            /\ (pc = "sweep_end"
                  => /\ written = [x \in 1 .. (self.M - 1) |-> x - 1]
                     /\ old_values' = new_values
                     /\ new_values' = new_values
                     /\ error' = LinalgNorm([x \in DOMAIN new_values |->
                                     new_values[x] - old_values[x]]))
    ]_vars

C9_Witness ==
    /\ self.scheme = "FDCnAm" /\ pc = "sweep_end" /\ self.M = 4
    /\ written = <<0, 1, 2>> /\ sweeps >= 2
    /\ new_values[0] # old_values[0]
    /\ new_values[1] # old_values[1]

\* C10: with M >= 2 and N >= 1 no access of setup_coefficients,
\* traverse_grid or the PSOR updates leaves its array: price() never ends in
\* an IndexError.
C10_NoIndexError ==
    (self.M >= 2 /\ self.N >= 1) => fault # "IndexError"
====
